---- MODULE Spec2Model ----
(***************************************************************************)
(* Delta table health analysis: the metrics record and its weighted health *)
(* score (base_analyzer.py), the partition-skew calculator and the file    *)
(* inventory of the local backend (delta_python_analyzer.py), the          *)
(* distributed backend (delta_spark_analyzer.py) and the facade that       *)
(* selects a backend and scores its result (delta_analyzer.py).            *)
(*                                                                         *)
(* Python floats are modelled as exact rationals <<n, d>> with d > 0 in    *)
(* lowest terms; None is the empty tuple <<>>.  A dict with optional keys  *)
(* is a record with a field "keys" holding the keys that are present.      *)
(***************************************************************************)
EXTENDS Integers, Sequences, FiniteSets, TLC

VARIABLES
    pc,        \* position of the running call
    request,   \* arguments of the running DeltaAnalyzer.analyze call
    table,     \* the table in storage, as the readers see it
    analyzer,  \* attributes of the backend analyzer instance
    metrics,   \* the DeltaAnalyzerMetrics record of the running call
    ret,       \* last value returned by calculate_health_score
    calls,     \* scoring calls made on the current metrics record
    error,     \* the exception the running call raised, if any
    result,    \* the HealthResult handed to the caller, if any
    populated  \* the metric groups written so far by the running call, in order

vars == <<pc, request, table, analyzer, metrics, ret, calls, error, result,
          populated>>

\* None where a number, a tuple, a list or an object is expected
None == <<>>
\* None where a string or an enum member is expected
NoneStr == "None"

----------------------------------------------------------------------------
(* Exact arithmetic for the float expressions of the source.               *)

Abs(x) == IF x < 0 THEN -x ELSE x

RECURSIVE GCD(_, _)
GCD(a, b) == IF b = 0 THEN a ELSE GCD(b, a % b)

Rat(n, d) ==
    LET s == IF d < 0 THEN -1 ELSE 1
        g == GCD(Abs(n), Abs(d))
    IN  <<(s * n) \div g, (s * d) \div g>>

R(n) == <<n, 1>>
RAdd(a, b) == Rat(a[1] * b[2] + b[1] * a[2], a[2] * b[2])
RSub(a, b) == Rat(a[1] * b[2] - b[1] * a[2], a[2] * b[2])
RMul(a, b) == Rat(a[1] * b[1], a[2] * b[2])
RDiv(a, b) == Rat(a[1] * b[2], a[2] * b[1])
RLt(a, b) == a[1] * b[2] < b[1] * a[2]
RLe(a, b) == a[1] * b[2] <= b[1] * a[2]
RMin(a, b) == IF RLt(b, a) THEN b ELSE a
RAbs(a) == <<Abs(a[1]), a[2]>>
\* int(x) of a float: truncation toward zero
RTrunc(a) == IF a[1] >= 0 THEN a[1] \div a[2] ELSE -((-a[1]) \div a[2])

Max2(a, b) == IF a < b THEN b ELSE a

----------------------------------------------------------------------------
(* base_analyzer.py: HealthStatus and DeltaAnalyzerMetrics                 *)

HEALTHY == "healthy"
UNHEALTHY == "unhealthy"
VERY_UNHEALTHY == "very_unhealthy"
UNKNOWN == "unknown"
HealthStatus == {HEALTHY, UNHEALTHY, VERY_UNHEALTHY, UNKNOWN}

\* an empty dict: no key present
EmptyDict ==
    [keys |-> {}, partition_columns |-> <<>>, skewness_max |-> R(0),
     skewness_average |-> R(0), is_skewed |-> FALSE,
     records_per_partition_dict |-> <<>>, error |-> ""]

\* d.get(k, default)
DictGet(d, k, default) == IF k \in d.keys THEN d[k] ELSE default

\* DeltaAnalyzerMetrics(): every field at its declared default
DeltaAnalyzerMetrics ==
    [version_count |-> 0, partition_count |-> 0, record_count |-> 0,
     is_skewed |-> FALSE, skewness_max |-> R(0), skewness_average |-> R(0),
     is_compacted |-> FALSE, has_orfan_files |-> FALSE,
     number_of_writes |-> 0, number_of_deletes |-> 0, number_of_optimizes |-> 0,
     table_size_bytes |-> 0, folder_size_bytes |-> 0,
     needs_vacuum |-> FALSE, has_orphan_files |-> FALSE, needs_optimize |-> FALSE,
     small_files_count |-> 0, avg_file_size_bytes |-> 0,
     partition_skewness |-> None, data_file_count |-> 0,
     orphan_files_count |-> 0, files_needing_vacuum |-> 0,
     file_size_efficiency |-> None, storage_efficiency |-> None,
     table_path |-> "", total_file_count |-> 0,
     skew_metrics |-> EmptyDict,
     health_score |-> None, health_status |-> NoneStr]

\* a status ladder that excludes the boundary scores
status_of_strict(score) ==
    IF RLt(R(80), score) THEN HEALTHY
    ELSE IF RLt(R(50), score) THEN UNHEALTHY
    ELSE VERY_UNHEALTHY

\* a maintenance band that grants the vacuum share when a vacuum is needed
maintenance_score_vacuum_flipped(m) ==
    LET half == RDiv(R(25), R(2))
        optimize_ratio == RDiv(R(m.number_of_optimizes),
                               R(Max2(m.number_of_writes, 1)))
        optimize_score == RMin(RMul(RMul(optimize_ratio, R(10)), half), half)
        vacuum_score == IF m.needs_vacuum THEN half ELSE R(0)
    IN  RAdd(optimize_score, vacuum_score)

\* a storage band whose small-file penalty is not capped
storage_score_uncapped(m) ==
    LET half == RDiv(R(25), R(2))
        small_files_ratio == RDiv(R(m.small_files_count),
                                  R(Max2(m.number_of_writes * 2, 1)))
        orphan_penalty == IF m.has_orphan_files THEN half ELSE R(0)
    IN  RSub(RSub(R(25), RMul(small_files_ratio, half)), orphan_penalty)

\* a storage band that takes nothing off for orphan files
storage_score_orphans_free(m) ==
    LET half == RDiv(R(25), R(2))
        small_files_ratio == RDiv(R(m.small_files_count),
                                  R(Max2(m.number_of_writes * 2, 1)))
        small_files_penalty == RMin(RMul(small_files_ratio, half), half)
    IN  RSub(R(25), small_files_penalty)

\* the freshness band of calculate_health_score
freshness_score(m) ==
    LET max_freshness_score == R(25)
        freshness_threshold == R(10)
    IN  RMin(RMul(RDiv(R(m.number_of_writes), freshness_threshold),
                  max_freshness_score),
             max_freshness_score)

\* the maintenance band: optimize share plus vacuum share
maintenance_score(m) ==
    LET max_maintenance_score == R(25)
        half == RDiv(max_maintenance_score, R(2))
        optimize_ratio == RDiv(R(m.number_of_optimizes),
                               R(Max2(m.number_of_writes, 1)))
        optimize_score == RMin(RMul(RMul(optimize_ratio, R(10)), half), half)
        vacuum_score == IF m.needs_vacuum THEN R(0) ELSE half
    IN  RAdd(optimize_score, vacuum_score)

\* the skewness the balance band reads: the bundle's value when the bundle is
\* non-empty and holds the key, else the scalar field
score_skewness(m) ==
    IF m.skew_metrics.keys # {}
    THEN DictGet(m.skew_metrics, "skewness_max", m.skewness_max)
    ELSE m.skewness_max

balance_score(m) ==
    LET max_balance_score == R(25)
        skew_penalty == RMin(RMul(score_skewness(m), R(100)), max_balance_score)
    IN  RSub(max_balance_score, skew_penalty)

storage_score(m) ==
    LET max_storage_score == R(25)
        half == RDiv(max_storage_score, R(2))
        small_files_ratio == RDiv(R(m.small_files_count),
                                  R(Max2(m.number_of_writes * 2, 1)))
        small_files_penalty == RMin(RMul(small_files_ratio, half), half)
        orphan_penalty == IF m.has_orphan_files THEN half ELSE R(0)
    IN  RSub(RSub(max_storage_score, small_files_penalty), orphan_penalty)

overall_score(m) ==
    RAdd(RAdd(RAdd(freshness_score(m), maintenance_score(m)), balance_score(m)),
         storage_score(m))

status_of(score) ==
    IF RLe(R(80), score) THEN HEALTHY
    ELSE IF RLe(R(50), score) THEN UNHEALTHY
    ELSE VERY_UNHEALTHY

\* the (score, status) pair calculate_health_score returns
health_pair(m) == <<overall_score(m), status_of(overall_score(m))>>

\* a scoring call that stores the score and leaves the status alone
calculate_health_score_score_only(m) ==
    [m EXCEPT !.health_score = health_pair(m)[1]]

\* a scoring call that adds the new score to the one already stored
calculate_health_score_accumulating(m) ==
    [m EXCEPT !.health_score = IF m.health_score = None THEN health_pair(m)[1]
                               ELSE RAdd(m.health_score, health_pair(m)[1]),
              !.health_status = health_pair(m)[2]]

\* the record after calculate_health_score stored the pair in it
calculate_health_score(m) ==
    [m EXCEPT !.health_score = health_pair(m)[1],
              !.health_status = health_pair(m)[2]]

\* a wrapper that takes the next integer above a fractional score
create_health_result_ceiling(m) ==
    LET scored == calculate_health_score(m)
        x == scored.health_score
    IN  [health_metric |-> IF x \in {None, R(0)} THEN 0
                           ELSE IF x[1] >= 0 THEN (x[1] + x[2] - 1) \div x[2]
                           ELSE -((-x[1]) \div x[2]),
         health_status |-> IF scored.health_status = NoneStr THEN UNKNOWN
                           ELSE scored.health_status,
         metrics |-> scored]

\* a wrapper that rounds the score to the nearest integer
create_health_result_rounding(m) ==
    LET scored == calculate_health_score(m)
        x == scored.health_score
    IN  [health_metric |-> IF x \in {None, R(0)} THEN 0
                           ELSE (2 * x[1] + x[2]) \div (2 * x[2]),
         health_status |-> IF scored.health_status = NoneStr THEN UNKNOWN
                           ELSE scored.health_status,
         metrics |-> scored]

\* DeltaAnalyzer.create_health_result: score the record in place and wrap it;
\* `x or 0` is 0 for None and for 0.0, int() drops the fraction
create_health_result(m) ==
    LET scored == calculate_health_score(m)
    IN  [health_metric |-> IF scored.health_score \in {None, R(0)} THEN 0
                           ELSE RTrunc(scored.health_score),
         health_status |-> IF scored.health_status = NoneStr THEN UNKNOWN
                           ELSE scored.health_status,
         metrics |-> scored]

----------------------------------------------------------------------------
(* Sequence helpers: max(), min(), sum() and len() of a Python list.       *)

RECURSIVE SeqSum(_)
SeqSum(s) == IF s = <<>> THEN 0 ELSE Head(s) + SeqSum(Tail(s))

RECURSIVE RSeqSum(_)
RSeqSum(s) == IF s = <<>> THEN R(0) ELSE RAdd(Head(s), RSeqSum(Tail(s)))

SeqMax(s) == CHOOSE x \in {s[i] : i \in 1..Len(s)} : \A j \in 1..Len(s) : s[j] <= x
SeqMin(s) == CHOOSE x \in {s[i] : i \in 1..Len(s)} : \A j \in 1..Len(s) : x <= s[j]

----------------------------------------------------------------------------
(* The partition-skew calculators.  A table's data is seen through the     *)
(* group-by over its partition columns: row i holds the key of partition i *)
(* (one value per partition column) and the number of records in it.       *)

\* the key values of partition i: one value per partition column
PartitionKey(i, partition_cols) ==
    [c \in 1..Len(partition_cols) |-> IF c = 1 THEN i ELSE 1]

\* df.group_by(partition_cols).count() / SELECT cols, COUNT(*) GROUP BY cols
GroupByCount(data) ==
    [i \in 1..Len(data.counts) |->
        [key |-> PartitionKey(i, data.partition_columns), count |-> data.counts[i]]]

\* the string a partition key is recorded under: str(value) for one column,
\* str(tuple) for a composite key
partition_key_str(row, partition_cols) ==
    IF Len(partition_cols) = 1 THEN ToString(row.key[1]) ELSE ToString(row.key)

\* the mapping from stringified partition key to record count
records_per_partition(rows, partition_cols) ==
    [k \in {partition_key_str(rows[i], partition_cols) : i \in 1..Len(rows)} |->
        LET i == CHOOSE j \in 1..Len(rows) :
                     /\ partition_key_str(rows[j], partition_cols) = k
                     /\ \A l \in (j+1)..Len(rows) :
                            partition_key_str(rows[l], partition_cols) # k
        IN  rows[i].count]

\* the spread of the counts, not divided by the largest count
max_skew_unnormalized(counts) == R(SeqMax(counts) - SeqMin(counts))

\* (max_count - min_count) / max_count
max_skew(counts) == RDiv(R(SeqMax(counts) - SeqMin(counts)), R(SeqMax(counts)))

\* average absolute deviation from the mean, divided by the mean
\* (the caller guards mean_count # 0)
average_skew(counts) ==
    LET n == R(Len(counts))
        mean_count == RDiv(R(SeqSum(counts)), n)
        devs == [i \in 1..Len(counts) |-> RAbs(RSub(R(counts[i]), mean_count))]
        avg_abs_dev == RDiv(RSeqSum(devs), n)
    IN  RDiv(avg_abs_dev, mean_count)

\* DeltaPythonAnalyzer.analyze_skewness on the loaded handle `data`, with the
\* instance attribute skew_metrics being `attr` (None when never set):
\* whether it raised, what it returned and the attribute afterwards
py_analyze_skewness(data, attr, threshold, method) ==
    LET partition_cols == data.partition_columns
        rows == GroupByCount(data)
        counts == [i \in 1..Len(rows) |-> rows[i].count]
        max_count == SeqMax(counts)
        min_count == SeqMin(counts)
        normalized_skew ==
            IF method = "max" THEN max_skew(counts)
            ELSE IF SeqSum(counts) # 0 THEN average_skew(counts) ELSE R(0)
        bundle ==
            [keys |-> {"partition_columns", "skewness_max", "skewness_average",
                       "is_skewed", "records_per_partition_dict"},
             partition_columns |-> partition_cols,
             skewness_max |->
                 IF method = "max" THEN normalized_skew
                 ELSE IF max_count > 0 THEN max_skew(counts) ELSE R(0),
             skewness_average |->
                 IF method = "average" THEN normalized_skew
                 ELSE IF SeqSum(counts) > 0 THEN average_skew(counts) ELSE R(0),
             is_skewed |-> RLt(threshold, normalized_skew),
             records_per_partition_dict |-> records_per_partition(rows, partition_cols),
             error |-> ""]
    IN  IF partition_cols = <<>>
        THEN [raised |-> TRUE, value |-> None, skew_metrics |-> attr]
        ELSE IF Len(counts) <= 1
        THEN [raised |-> FALSE, value |-> R(0), skew_metrics |-> attr]
        ELSE IF max_count = 0
        THEN [raised |-> FALSE, value |-> R(0), skew_metrics |-> attr]
        ELSE IF method \notin {"max", "average"}
        THEN [raised |-> TRUE, value |-> None, skew_metrics |-> attr]
        ELSE [raised |-> FALSE, value |-> normalized_skew, skew_metrics |-> bundle]

\* DeltaSparkAnalyzer.analyze_skewness: the metrics record after it ran on the
\* group-by result `rows`
spark_analyze_skewness(rows, partition_cols, threshold, m) ==
    LET counts == [i \in 1..Len(rows) |-> rows[i].count]
        skewness_max ==
            IF counts = <<>> THEN R(0)
            ELSE IF SeqMax(counts) > 0 THEN max_skew(counts) ELSE R(0)
        skewness_average ==
            IF counts = <<>> THEN R(0)
            ELSE IF SeqSum(counts) > 0 THEN average_skew(counts) ELSE R(0)
    IN  [m EXCEPT
            !.skewness_max = skewness_max,
            !.skewness_average = skewness_average,
            !.is_skewed = RLt(threshold, skewness_max),
            !.partition_skewness = skewness_max,
            !.skew_metrics =
                [keys |-> {"partition_columns", "skewness_max", "skewness_average",
                           "is_skewed", "records_per_partition_dict"},
                 partition_columns |-> partition_cols,
                 skewness_max |-> skewness_max,
                 skewness_average |-> skewness_average,
                 is_skewed |-> RLt(threshold, skewness_max),
                 records_per_partition_dict |-> records_per_partition(rows, partition_cols),
                 error |-> ""]]

----------------------------------------------------------------------------
(* The file inventory of the local backend.  A path is <<directory, name>>; *)
(* the storage tree holds `present` files [path, size]; the table's log     *)
(* tracks `tracked` files [path, size].                                     *)

MiB == 1048576

basename(path) == path[2]

\* os.path.getsize(fp) against the storage tree, as the per-file try of
\* check_delta_file_usage keeps it: <<size>>, or None when getsize raised
getsize(present, fp) ==
    IF \E i \in 1..Len(present) : present[i].path = fp
    THEN <<present[CHOOSE i \in 1..Len(present) : present[i].path = fp].size>>
    ELSE None

\* the values of `sizes` that are not None, in order
RECURSIVE not_none(_)
not_none(sizes) ==
    IF sizes = <<>> THEN <<>>
    ELSE IF Head(sizes) = None THEN not_none(Tail(sizes))
    ELSE <<Head(sizes)[1]>> \o not_none(Tail(sizes))

\* get_table_folder_size_bytes: the walk over the .parquet files of the tree
folder_walk(present) ==
    [total_size |-> SeqSum([i \in 1..Len(present) |-> present[i].size]),
     all_file_paths |-> [i \in 1..Len(present) |-> present[i].path]]

\* check_delta_file_usage: sizes of the tracked files as found in storage, and
\* the base names of the tracked files and of the files the last walk listed
\* (`all_paths` is the attribute _all_folder_file_paths, None when never set)
check_delta_file_usage(data, present, all_paths) ==
    LET file_paths == [i \in 1..Len(data.tracked) |-> data.tracked[i].path]
        file_sizes == [i \in 1..Len(file_paths) |-> getsize(present, file_paths[i])]
        listed == IF all_paths = None THEN <<>> ELSE all_paths
    IN  [delta_file_sizes |-> file_sizes,
         total_delta_file_size |-> SeqSum(not_none(file_sizes)),
         delta_file_names |-> [i \in 1..Len(file_paths) |-> basename(file_paths[i])],
         all_folder_file_names |-> [i \in 1..Len(listed) |-> basename(listed[i])],
         errors |-> {file_paths[i] : i \in {j \in 1..Len(file_paths) : file_sizes[j] = None}}]

SeqToSet(s) == {s[i] : i \in 1..Len(s)}

\* a file ratio that is 0 when no file is present
file_ratio_default_zero(delta_file_count, all_file_count) ==
    IF all_file_count > 0 THEN RDiv(R(delta_file_count), R(all_file_count)) ELSE R(0)

\* a size ratio that is 0 when the folder is empty
size_ratio_default_zero(total_delta_size, total_folder_size) ==
    IF total_folder_size > 0 THEN RDiv(R(total_delta_size), R(total_folder_size))
    ELSE R(0)

\* line 229: tracked bytes over present bytes, 1.0 for an empty folder
size_ratio(total_delta_size, total_folder_size) ==
    IF total_folder_size > 0 THEN RDiv(R(total_delta_size), R(total_folder_size))
    ELSE R(1)

\* line 231: tracked files over present files, 1.0 when none is present
file_ratio(delta_file_count, all_file_count) ==
    IF all_file_count > 0 THEN RDiv(R(delta_file_count), R(all_file_count)) ELSE R(1)

\* an inventory block that averages without asking whether a size was read:
\* with none, the division raises and the block's except branch runs
inventory_metrics_unguarded_average(m, file_usage, req) ==
    LET total_folder_size == m.folder_size_bytes
        total_delta_size == file_usage.total_delta_file_size
        delta_file_count == Len(file_usage.delta_file_names)
        all_file_count == Len(file_usage.all_folder_file_names)
        delta_file_sizes == not_none(file_usage.delta_file_sizes)
        avg_file_size == RDiv(R(SeqSum(delta_file_sizes)), R(Len(delta_file_sizes)))
        small_file_threshold ==
            IF req.small_file_size_mb = None THEN avg_file_size
            ELSE RMul(RMul(req.small_file_size_mb, R(1024)), R(1024))
        small_files_count ==
            Cardinality({i \in 1..Len(delta_file_sizes) :
                            RLt(R(delta_file_sizes[i]), small_file_threshold)})
        base == [m EXCEPT
                    !.table_size_bytes = total_delta_size,
                    !.needs_vacuum =
                        RLt(size_ratio(total_delta_size, total_folder_size),
                            req.vacuum_size_ratio_threshold),
                    !.has_orphan_files =
                        RLt(file_ratio(delta_file_count, all_file_count),
                            req.orphan_file_ratio_threshold)]
    IN  IF delta_file_sizes # <<>>
        THEN [base EXCEPT
                !.needs_optimize =
                    RLt(RMul(R(Len(delta_file_sizes)), req.small_file_ratio_threshold),
                        R(small_files_count)),
                !.small_files_count = small_files_count,
                !.avg_file_size_bytes = RTrunc(avg_file_size)]
        ELSE [m EXCEPT !.table_size_bytes = 0, !.needs_vacuum = FALSE,
                       !.has_orphan_files = FALSE, !.needs_optimize = FALSE,
                       !.small_files_count = 0, !.avg_file_size_bytes = 0]

\* lines 224-249 of analyze_table: the metrics after the inventory block ran
\* without raising
inventory_metrics(m, file_usage, req) ==
    LET total_folder_size == m.folder_size_bytes
        total_delta_size == file_usage.total_delta_file_size
        delta_file_count == Len(file_usage.delta_file_names)
        all_file_count == Len(file_usage.all_folder_file_names)
        delta_file_sizes == not_none(file_usage.delta_file_sizes)
        avg_file_size == RDiv(R(SeqSum(delta_file_sizes)), R(Len(delta_file_sizes)))
        small_file_threshold ==
            IF req.small_file_size_mb = None THEN avg_file_size
            ELSE RMul(RMul(req.small_file_size_mb, R(1024)), R(1024))
        small_files_count ==
            Cardinality({i \in 1..Len(delta_file_sizes) :
                            RLt(R(delta_file_sizes[i]), small_file_threshold)})
        base == [m EXCEPT
                    !.table_size_bytes = total_delta_size,
                    !.needs_vacuum =
                        RLt(size_ratio(total_delta_size, total_folder_size),
                            req.vacuum_size_ratio_threshold),
                    !.has_orphan_files =
                        RLt(file_ratio(delta_file_count, all_file_count),
                            req.orphan_file_ratio_threshold)]
    IN  IF delta_file_sizes # <<>>
        THEN [base EXCEPT
                !.needs_optimize =
                    RLt(RMul(R(Len(delta_file_sizes)), req.small_file_ratio_threshold),
                        R(small_files_count)),
                !.small_files_count = small_files_count,
                !.avg_file_size_bytes = RTrunc(avg_file_size)]
        ELSE [base EXCEPT
                !.needs_optimize = FALSE,
                !.small_files_count = 0,
                !.avg_file_size_bytes = 0]

\* lines 251-256: the defaults of the inventory block's except branch
inventory_defaults(m) ==
    [m EXCEPT !.table_size_bytes = 0, !.needs_vacuum = FALSE,
              !.has_orphan_files = FALSE, !.needs_optimize = FALSE,
              !.small_files_count = 0, !.avg_file_size_bytes = 0]

\* a storage efficiency taken as folder size over table size
storage_ratio_inverted(m) == RDiv(R(m.folder_size_bytes), R(m.table_size_bytes))

\* line 271: table_size_bytes / folder_size_bytes
storage_ratio(m) == RDiv(R(m.table_size_bytes), R(m.folder_size_bytes))

\* lines 258-278: counts, orphan files, vacuum candidates and derived ratios
finalize_metrics(m, file_usage, table_uri, partition_cols) ==
    LET all_files == SeqToSet(file_usage.all_folder_file_names)
        delta_files == SeqToSet(file_usage.delta_file_names)
        m1 == [m EXCEPT
                 !.table_path = table_uri,
                 !.data_file_count = Len(file_usage.delta_file_names),
                 !.total_file_count = Len(file_usage.all_folder_file_names),
                 !.orphan_files_count = Cardinality(all_files \ delta_files)]
        m2 == [m1 EXCEPT
                 !.files_needing_vacuum =
                     IF m1.needs_vacuum = FALSE THEN 0 ELSE m1.orphan_files_count]
        m3 == IF m2.folder_size_bytes > 0
              THEN [m2 EXCEPT !.storage_efficiency = storage_ratio(m2)]
              ELSE m2
        m4 == IF m3.data_file_count > 0 /\ m3.avg_file_size_bytes > 0
              THEN [m3 EXCEPT !.file_size_efficiency =
                       RMin(R(1), RDiv(R(m3.avg_file_size_bytes), R(128 * 1024 * 1024)))]
              ELSE m3
    IN  IF partition_cols # <<>>
        THEN [m4 EXCEPT !.partition_skewness = m4.skewness_max]
        ELSE m4

----------------------------------------------------------------------------
(* History counters (both backends) and the distributed backend's          *)
(* heuristics.                                                              *)

\* a counter that also takes MERGE commits for writes
count_ops_merge_as_write(history, op) ==
    Cardinality({i \in 1..Len(history) :
                    \/ history[i].operation = op
                    \/ op = "WRITE" /\ history[i].operation = "MERGE"})

count_ops(history, op) ==
    Cardinality({i \in 1..Len(history) : history[i].operation = op})

\* max(version of every entry, default 0)
max_version(history) ==
    IF history = <<>> THEN 0
    ELSE SeqMax([i \in 1..Len(history) |-> history[i].version])

\* lines 167-189 of the local analyze_table: a fresh record with the counters
py_history_metrics(history) ==
    [DeltaAnalyzerMetrics EXCEPT
        !.number_of_writes = count_ops(history, "WRITE"),
        !.number_of_deletes = count_ops(history, "DELETE"),
        !.number_of_optimizes = count_ops(history, "OPTIMIZE"),
        !.version_count = max_version(history)]

\* DESCRIBE DETAIL: what the engine reports about the table
describe_detail(tbl) ==
    [sizeInBytes |-> SeqSum([i \in 1..Len(tbl.tracked) |-> tbl.tracked[i].size]),
     numFiles |-> Len(tbl.tracked),
     partitionColumns |-> tbl.partition_columns,
     location |-> tbl.location]

\* lines 116-138 of the distributed analyze_table
spark_detail_metrics(table_details, history) ==
    [DeltaAnalyzerMetrics EXCEPT
        !.table_size_bytes = table_details.sizeInBytes,
        !.data_file_count = table_details.numFiles,
        !.total_file_count = table_details.numFiles,
        !.number_of_writes = count_ops(history, "WRITE"),
        !.number_of_deletes = count_ops(history, "DELETE"),
        !.number_of_optimizes = count_ops(history, "OPTIMIZE"),
        !.version_count = max_version(history),
        !.folder_size_bytes = table_details.sizeInBytes]

\* lines 145-154: the except branch of the distributed skew block
spark_skew_failed(m, partition_cols) ==
    [m EXCEPT
        !.skew_metrics =
            [keys |-> {"partition_columns", "skewness_max", "skewness_average",
                       "is_skewed", "error"},
             partition_columns |-> partition_cols,
             skewness_max |-> R(0), skewness_average |-> R(0), is_skewed |-> FALSE,
             records_per_partition_dict |-> <<>>,
             error |-> "Failed to calculate skewness"],
        !.skewness_max = R(0), !.skewness_average = R(0), !.is_skewed = FALSE]

\* an except branch that resets the scalars and attaches no bundle
py_skew_failed_without_annotation(m) ==
    [m EXCEPT
        !.skewness_max = R(0), !.skewness_average = R(0), !.is_skewed = FALSE,
        !.partition_skewness = None]

\* lines 202-211: the except branch of the local skew block
py_skew_failed(m) ==
    [m EXCEPT
        !.skew_metrics =
            [keys |-> {"skewness_max", "skewness_average", "is_skewed", "error"},
             partition_columns |-> <<>>,
             skewness_max |-> R(0), skewness_average |-> R(0), is_skewed |-> FALSE,
             records_per_partition_dict |-> <<>>,
             error |-> "Failed to calculate skewness"],
        !.skewness_max = R(0), !.skewness_average = R(0), !.is_skewed = FALSE,
        !.partition_skewness = None]

\* lines 195-200: the scalars copied from the instance's bundle
py_skew_copied(m, bundle) ==
    [m EXCEPT
        !.skew_metrics = bundle,
        !.skewness_max = DictGet(bundle, "skewness_max", R(0)),
        !.skewness_average = DictGet(bundle, "skewness_average", R(0)),
        !.is_skewed = DictGet(bundle, "is_skewed", FALSE),
        !.partition_skewness = DictGet(bundle, "skewness_max", R(0))]

\* a vacuum heuristic that already fires at ten writes per optimize
vacuum_heuristic_from_ten(m) ==
    LET vac == m.number_of_writes >= 10 * m.number_of_optimizes
               /\ m.number_of_writes > 0
    IN  [m EXCEPT
            !.needs_vacuum = vac,
            !.files_needing_vacuum =
                IF vac THEN RTrunc(RMul(R(m.data_file_count), RDiv(R(1), R(10))))
                ELSE 0]

\* lines 161-166 of the distributed analyze_table: the vacuum heuristic
vacuum_heuristic(m) ==
    LET vac == m.number_of_writes > 10 * m.number_of_optimizes
               /\ m.number_of_writes > 0
    IN  [m EXCEPT
            !.needs_vacuum = vac,
            !.files_needing_vacuum =
                IF vac THEN RTrunc(RMul(R(m.data_file_count), RDiv(R(1), R(10))))
                ELSE 0]

\* int(data_file_count * n/d)
file_share(m, n, d) == RTrunc(RMul(R(m.data_file_count), RDiv(R(n), R(d))))

\* a small-file heuristic whose middle band ends at the threshold itself
small_file_heuristic_without_middle_band(m, req) ==
    LET avg_file_size == RDiv(R(m.table_size_bytes), R(m.data_file_count))
        small_file_threshold == RMul(RMul(req.small_file_size_mb, R(1024)), R(1024))
    IN  IF m.data_file_count > 0 /\ m.table_size_bytes > 0
        THEN IF RLt(avg_file_size, small_file_threshold)
             THEN [m EXCEPT !.avg_file_size_bytes = RTrunc(avg_file_size),
                            !.small_files_count = file_share(m, 8, 10),
                            !.needs_optimize = TRUE]
             ELSE [m EXCEPT !.avg_file_size_bytes = RTrunc(avg_file_size),
                            !.small_files_count = file_share(m, 1, 10),
                            !.needs_optimize = FALSE]
        ELSE m

\* lines 168-181: the small-file heuristic over the average file size
small_file_heuristic(m, req) ==
    LET avg_file_size == RDiv(R(m.table_size_bytes), R(m.data_file_count))
        small_file_threshold == RMul(RMul(req.small_file_size_mb, R(1024)), R(1024))
    IN  IF m.data_file_count > 0 /\ m.table_size_bytes > 0
        THEN IF RLt(avg_file_size, small_file_threshold)
             THEN [m EXCEPT !.avg_file_size_bytes = RTrunc(avg_file_size),
                            !.small_files_count = file_share(m, 8, 10),
                            !.needs_optimize = TRUE]
             ELSE IF RLt(avg_file_size, RMul(small_file_threshold, R(2)))
             THEN [m EXCEPT !.avg_file_size_bytes = RTrunc(avg_file_size),
                            !.small_files_count = file_share(m, 3, 10),
                            !.needs_optimize =
                                RLt(RMul(R(m.data_file_count),
                                         req.small_file_ratio_threshold),
                                    R(file_share(m, 3, 10)))]
             ELSE [m EXCEPT !.avg_file_size_bytes = RTrunc(avg_file_size),
                            !.small_files_count = file_share(m, 1, 10),
                            !.needs_optimize = FALSE]
        ELSE m

\* lines 161-189 of the distributed analyze_table: vacuum and small-file
\* heuristics, orphan flags, efficiencies and the table path
spark_heuristics(m, req, location) ==
    LET m2 == small_file_heuristic(vacuum_heuristic(m), req)
    IN  [m2 EXCEPT
            !.has_orphan_files = m2.needs_vacuum,
            !.orphan_files_count = m2.files_needing_vacuum,
            !.file_size_efficiency =
                IF m2.avg_file_size_bytes # 0
                THEN RMin(R(1), RDiv(R(m2.avg_file_size_bytes), R(128 * 1024 * 1024)))
                ELSE R(0),
            !.storage_efficiency = RDiv(R(95), R(100)),
            !.table_path = location]

----------------------------------------------------------------------------
(* The inputs: requests to the facade and tables in storage.               *)

MaxPartitions == 2
MaxSkewPartitions == 3
MaxCalls == 3
MaxWrites == 11
MaxOptimizes == 2
MaxSmallFiles == 2
MaxFiles == 25
MaxCommits == 2

\* sequences over S of length at most n
SeqsUpTo(S, n) == UNION {[1..k -> S] : k \in 0..n}

\* a history of w WRITE, then d DELETE, then o OPTIMIZE commits, versions from 0
Hist(w, d, o) ==
    [i \in 1..(w + d + o) |->
        [operation |-> IF i <= w THEN "WRITE"
                       ELSE IF i <= w + d THEN "DELETE" ELSE "OPTIMIZE",
         version |-> i - 1]]

\* a history as the log reader lists it, newest commit first, one commit per tag
HistoryOf(tags) ==
    [i \in 1..Len(tags) |-> [operation |-> tags[i], version |-> Len(tags) - i]]

\* a history holding merges and a commit of a kind no counter knows
MixedHistory == HistoryOf(<<"MERGE", "WRITE", "RESTORE", "DELETE", "WRITE", "MERGE">>)

File(dir, name, mib) == [path |-> <<dir, name>>, size |-> mib * MiB]

\* what can fail while a table is analysed: opening the handle, the data read
\* of the first and of the second skew call (for the distributed backend the
\* group-by query), the folder walk, the record count, the tracked-file list
FaultPoints ==
    {"open", "skew_max", "skew_average", "folder_walk", "record_count", "file_uris"}

FaultSets == {{}} \cup {{f} : f \in FaultPoints}

\* tracked and present files: an empty table; two live files; one live file
\* beside two left-over files; a tracked file missing from storage
FileSets ==
    {[tracked |-> <<>>, present |-> <<>>],
     [tracked |-> <<File("d1", "a", 1), File("d2", "b", 20)>>,
      present |-> <<File("d1", "a", 1), File("d2", "b", 20)>>],
     [tracked |-> <<File("d1", "c", 20)>>,
      present |-> <<File("d1", "a", 1), File("d1", "b", 1), File("d1", "c", 20)>>],
     [tracked |-> <<File("d1", "a", 1), File("d1", "gone", 1)>>,
      present |-> <<File("d1", "a", 1)>>]}

MakeTables(cols, countSeqs, histories, fileSets, faultSets) ==
    {[location |-> "/data/t", partition_columns |-> pc_, counts |-> c,
      history |-> h, tracked |-> f.tracked, present |-> f.present, faults |-> x] :
        pc_ \in cols, c \in countSeqs, h \in histories, f \in fileSets,
        x \in faultSets}

\* the tables of the end-to-end specification: few partitions, every fault
Tables ==
    MakeTables({<<>>, <<"day">>, <<"day", "time">>},
               SeqsUpTo({1, 3}, MaxPartitions),
               {Hist(0, 0, 0), Hist(1, 0, 0), Hist(4, 1, 0), Hist(11, 1, 2), MixedHistory},
               FileSets, FaultSets)

\* the tables of the skew specification: partitioned tables with up to
\* MaxSkewPartitions partitions of 1, 2, 4 or 12 records (a group-by yields no
\* empty group), no fault
SkewTables ==
    MakeTables({<<"day">>, <<"day", "time">>},
               SeqsUpTo({1, 2, 4, 12}, MaxSkewPartitions),
               {Hist(4, 1, 0)},
               {[tracked |-> <<File("d1", "a", 1), File("d2", "b", 20)>>,
                 present |-> <<File("d1", "a", 1), File("d2", "b", 20)>>]},
               {{}})

\* a call of DeltaAnalyzer.analyze with its keyword defaults and the given
\* identification; `entry` names the public method the caller used
Request(environment, spark, table_name, table_path, skew_threshold) ==
    [entry |-> "analyze", environment |-> environment, spark |-> spark,
     table_name |-> table_name, table_path |-> table_path,
     skew_threshold |-> skew_threshold,
     vacuum_size_ratio_threshold |-> RDiv(R(7), R(10)),
     orphan_file_ratio_threshold |-> RDiv(R(8), R(10)),
     small_file_size_mb |-> R(10),
     small_file_ratio_threshold |-> RDiv(R(3), R(10))]

ValidRequests(thresholds) ==
    {Request("python", FALSE, NoneStr, "/data/t", t) : t \in thresholds}
    \cup {Request("databricks", TRUE, "cat.t", NoneStr, t) : t \in thresholds}
    \cup {Request("databricks", TRUE, NoneStr, "/data/t", t) : t \in thresholds}

InvalidRequests ==
    {Request("duckdb", FALSE, NoneStr, "/data/t", RDiv(R(1), R(10))),
     Request("python", FALSE, NoneStr, NoneStr, RDiv(R(1), R(10))),
     Request("databricks", FALSE, "cat.t", NoneStr, RDiv(R(1), R(10))),
     Request("databricks", TRUE, NoneStr, NoneStr, RDiv(R(1), R(10)))}

Requests == ValidRequests({RDiv(R(1), R(10))}) \cup InvalidRequests

SkewThresholds == {RDiv(R(1), R(10)), RDiv(R(2), R(5)), RDiv(R(19), R(20))}

SkewRequests == ValidRequests(SkewThresholds)

\* tracked and present files of the inventory specification: an empty table;
\* three live files of 1, 10 and 20 MiB; one live file beside two left-over
\* files; a tracked file missing from storage; a live file holding 95% of the
\* folder's bytes
InventoryFileSets ==
    {[tracked |-> <<>>, present |-> <<>>],
     [tracked |-> <<File("d1", "a", 1), File("d1", "b", 10), File("d2", "c", 20)>>,
      present |-> <<File("d1", "a", 1), File("d1", "b", 10), File("d2", "c", 20)>>],
     [tracked |-> <<File("d1", "c", 20)>>,
      present |-> <<File("d1", "a", 1), File("d1", "b", 1), File("d1", "c", 20)>>],
     [tracked |-> <<File("d1", "a", 1), File("d1", "gone", 1)>>,
      present |-> <<File("d1", "a", 1)>>],
     [tracked |-> <<File("d1", "c", 19)>>,
      present |-> <<File("d1", "a", 1), File("d1", "c", 19)>>],
     [tracked |-> <<>>, present |-> <<File("d1", "a", 1)>>],
     [tracked |-> <<File("d1", "gone", 1)>>, present |-> <<>>],
     [tracked |-> <<File("d1", "gone", 1), File("d2", "lost", 20)>>,
      present |-> <<File("d1", "a", 1)>>],
     [tracked |-> <<File("d1", "a", 1)>>,
      present |-> <<File("d1", "a", 1), File("d2", "a", 1)>>]}

InventoryTables ==
    MakeTables({<<>>, <<"day">>}, {<<1, 3>>}, {Hist(4, 1, 0)}, InventoryFileSets,
               {{}, {"folder_walk"}})

\* local requests over the thresholds of the file inventory
InventoryRequests ==
    {[Request("python", FALSE, NoneStr, "/data/t", RDiv(R(1), R(10))) EXCEPT
         !.vacuum_size_ratio_threshold = v,
         !.orphan_file_ratio_threshold = o,
         !.small_file_size_mb = mb,
         !.small_file_ratio_threshold = r] :
        v \in {RDiv(R(7), R(10)), RDiv(R(97), R(100))},
        o \in {RDiv(R(1), R(2)), RDiv(R(8), R(10)), R(1)},
        mb \in {None, R(10)},
        r \in {RDiv(R(3), R(10)), RDiv(R(1), R(2))}}

\* the requests of the facade specification: both public entry points, a
\* distributed request naming a catalog table and the path of another table,
\* and the invalid requests
FacadeRequests ==
    {[r EXCEPT !.entry = e] :
        r \in ValidRequests({RDiv(R(1), R(10))}),
        e \in {"analyze", "analyze_with_health_result"}}
    \cup {Request("databricks", TRUE, "cat.t", "/data/u", RDiv(R(1), R(10)))}
    \cup InvalidRequests

FacadeTables ==
    MakeTables({<<>>, <<"day">>}, {<<3>>, <<1, 3>>},
               {Hist(1, 0, 0), Hist(4, 1, 0), Hist(11, 1, 2)}, FileSets, {{}})

\* direct calls of DeltaPythonAnalyzer.analyze_table
ReuseRequests ==
    {[Request("python", FALSE, NoneStr, "/data/t", RDiv(R(1), R(10))) EXCEPT
         !.entry = "analyze_table"]}

\* tables with one, two and three partitions or none, whose folder walk may
\* fail
ReuseTables ==
    MakeTables({<<>>, <<"day">>}, {<<3>>, <<1, 3>>, <<3, 1, 1>>}, {Hist(1, 0, 0)},
               FileSets, {{}, {"folder_walk"}})

\* n tracked files of `mib` MiB each, all present
ManyFiles(n, mib) == [i \in 1..n |-> File("d1", ToString(i), mib)]

\* the tables of the heuristics specification: up to MaxFiles files of equal
\* size on either side of the small-file threshold and of twice the threshold,
\* and histories on either side of ten writes per optimize
HeuristicTables ==
    MakeTables({<<>>, <<"day">>}, {<<1, 3>>},
               {Hist(0, 0, 0), Hist(1, 0, 0), Hist(10, 0, 1), Hist(11, 0, 1),
                Hist(11, 1, 2)},
               {[tracked |-> ManyFiles(n, mib), present |-> ManyFiles(n, mib)] :
                   n \in {0, 1, 9, 10, MaxFiles}, mib \in {0, 1, 10, 15, 20, 40}},
               {{}})

\* distributed requests over two small-file ratio thresholds
HeuristicRequests ==
    {[Request("databricks", TRUE, "cat.t", NoneStr, RDiv(R(1), R(10))) EXCEPT
         !.small_file_ratio_threshold = r] :
        r \in {RDiv(R(1), R(5)), RDiv(R(3), R(10))}}

\* metrics records as a caller may hold them, for the scoring function alone
ScoreSkews ==
    {RDiv(R(-1), R(10)), R(0), RDiv(R(1), R(10)), RDiv(R(1), R(4)), RDiv(R(11), R(12))}

ScoreBundles ==
    {EmptyDict, [EmptyDict EXCEPT !.keys = {"error"}]}
    \cup {[EmptyDict EXCEPT !.keys = {"skewness_max"}, !.skewness_max = k] :
             k \in ScoreSkews}

ScoreRecords ==
    {[DeltaAnalyzerMetrics EXCEPT
        !.number_of_writes = w, !.number_of_optimizes = o,
        !.small_files_count = f, !.needs_vacuum = v, !.has_orphan_files = h,
        !.skewness_max = k, !.skew_metrics = b] :
        w \in 0..MaxWrites, o \in 0..MaxOptimizes, f \in 0..MaxSmallFiles,
        v \in BOOLEAN, h \in BOOLEAN, k \in ScoreSkews, b \in ScoreBundles}

----------------------------------------------------------------------------
(* The state machine: one facade call at a time, step by step.             *)

Init ==
    /\ pc = "idle"
    /\ request = None
    /\ table = None
    /\ analyzer = None
    /\ metrics = None
    /\ ret = None
    /\ calls = 0
    /\ error = NoneStr
    /\ result = None
    /\ populated = <<>>

\* DeltaPythonAnalyzer(): no handle, no skew bundle, no file list yet
NewPythonAnalyzer ==
    [data |-> None, partition_cols |-> <<>>, skew_metrics |-> None,
     all_folder_file_paths |-> None]

\* DeltaSparkAnalyzer(spark)
NewSparkAnalyzer == [data |-> None]

\* a facade that does not look at the session before it builds the backend
analyze_entry_without_session_check(req) ==
    IF req.environment \notin {"python", "databricks"} THEN "raised"
    ELSE IF req.environment = "python"
    THEN IF req.table_path = NoneStr THEN "raised" ELSE "py_load"
    ELSE "spark_load"

\* where DeltaAnalyzer(environment, spark).analyze(...) goes first: a
\* configuration error, or the construction of the backend analyzer
analyze_entry(req) ==
    IF req.environment \notin {"python", "databricks"} THEN "raised"
    ELSE IF req.environment = "python"
    THEN IF req.table_path = NoneStr THEN "raised" ELSE "py_load"
    ELSE IF ~req.spark THEN "raised" ELSE "spark_load"

\* a caller constructs the facade and calls analyze
Analyze(reqs) ==
    /\ pc \in {"idle", "returned", "raised"}
    /\ \E req \in reqs :
        /\ request' = req
        /\ pc' = analyze_entry(req)
        /\ analyzer' = IF analyze_entry(req) = "py_load" THEN NewPythonAnalyzer
                       ELSE IF analyze_entry(req) = "spark_load" THEN NewSparkAnalyzer
                       ELSE None
        /\ error' = IF analyze_entry(req) = "raised" THEN "ValueError" ELSE NoneStr
    /\ table' = None
    /\ metrics' = None
    /\ ret' = None
    /\ calls' = 0
    /\ result' = None
    /\ populated' = <<>>

\* a caller holding a DeltaPythonAnalyzer object calls analyze_table on it: on
\* a new object, or again on the object of the call before
AnalyzeTable(reqs) ==
    /\ pc \in {"idle", "returned", "raised"}
    /\ \E req \in reqs :
        /\ request' = req
        /\ pc' = "py_load"
    /\ \E an \in {NewPythonAnalyzer} \cup (IF analyzer = None THEN {} ELSE {analyzer}) :
        analyzer' = an
    /\ error' = NoneStr
    /\ table' = None
    /\ metrics' = None
    /\ ret' = None
    /\ calls' = 0
    /\ result' = None
    /\ populated' = <<>>

\* what the opened handle pins: the table's log at the version it was opened
snapshot(tbl) ==
    [table_uri |-> tbl.location, partition_columns |-> tbl.partition_columns,
     counts |-> tbl.counts, history |-> tbl.history, tracked |-> tbl.tracked]

\* DeltaPythonAnalyzer._load_data and the handle check (lines 162-165)
PyLoad(tbls) ==
    /\ pc = "py_load"
    /\ \E tbl \in tbls :
        /\ table' = tbl
        /\ IF "open" \in tbl.faults
           THEN pc' = "raised" /\ error' = "TableNotFoundError" /\ UNCHANGED analyzer
           ELSE /\ pc' = "py_history"
                /\ UNCHANGED error
                /\ analyzer' = [analyzer EXCEPT
                                   !.data = snapshot(tbl),
                                   !.partition_cols = tbl.partition_columns]
    /\ UNCHANGED <<request, metrics, ret, calls, result, populated>>

\* lines 167-189: the fresh metrics record and the history counters
PyHistory ==
    /\ pc = "py_history"
    /\ metrics' = py_history_metrics(analyzer.data.history)
    /\ pc' = "py_skew"
    /\ populated' = populated \o (<<"history">>)
    /\ UNCHANGED <<request, table, analyzer, ret, calls, error, result>>

\* the two analyze_skewness calls of lines 192-193: whether the block raised
\* and the instance's bundle afterwards
py_skew_calls(an, faults, threshold) ==
    LET first == IF "skew_max" \in faults
                 THEN [raised |-> TRUE, value |-> None, skew_metrics |-> an.skew_metrics]
                 ELSE py_analyze_skewness(an.data, an.skew_metrics, threshold, "max")
        second == IF "skew_average" \in faults
                  THEN [raised |-> TRUE, value |-> None,
                        skew_metrics |-> first.skew_metrics]
                  ELSE py_analyze_skewness(an.data, first.skew_metrics, threshold,
                                           "average")
    IN  IF first.raised THEN first ELSE second

\* lines 191-211: the skew block
PySkew ==
    /\ pc = "py_skew"
    /\ LET r == py_skew_calls(analyzer, table.faults, request.skew_threshold)
       IN  /\ analyzer' = [analyzer EXCEPT !.skew_metrics = r.skew_metrics]
           /\ metrics' = IF r.raised THEN py_skew_failed(metrics)
                         ELSE IF r.skew_metrics # None
                         THEN py_skew_copied(metrics, r.skew_metrics)
                         ELSE metrics
    /\ pc' = "py_folder"
    /\ populated' = populated \o (<<"skew">>)
    /\ UNCHANGED <<request, table, ret, calls, error, result>>

\* lines 213-216: the folder walk
PyFolder ==
    /\ pc = "py_folder"
    /\ IF "folder_walk" \in table.faults
       THEN /\ metrics' = [metrics EXCEPT !.folder_size_bytes = 0]
            /\ UNCHANGED analyzer
       ELSE /\ metrics' = [metrics EXCEPT
                              !.folder_size_bytes = folder_walk(table.present).total_size]
            /\ analyzer' = [analyzer EXCEPT
                               !.all_folder_file_paths =
                                   folder_walk(table.present).all_file_paths]
    /\ pc' = "py_count"
    /\ populated' = populated \o (<<"folder_size">>)
    /\ UNCHANGED <<request, table, ret, calls, error, result>>

\* lines 218-222: the record count of the live table
PyCount ==
    /\ pc = "py_count"
    /\ metrics' = [metrics EXCEPT
                      !.record_count = IF "record_count" \in table.faults THEN 0
                                       ELSE SeqSum(table.counts)]
    /\ pc' = "py_inventory"
    /\ populated' = populated \o (<<"record_count">>)
    /\ UNCHANGED <<request, table, analyzer, ret, calls, error, result>>

\* another writer commits to the table while the analysis holds its handle:
\* one more record in one partition, one more data file, one more WRITE in the
\* log.  The handle keeps the version it was opened at; storage and the log
\* that pl.read_delta(table_uri) opens at line 219 show the new version.
WriterCommits ==
    /\ pc \in {"py_history", "py_skew", "py_folder", "py_count"}
    /\ Len(table.history) < Len(analyzer.data.history) + MaxCommits
    /\ \E i \in 1..Len(table.counts) :
          LET added == File("d1", ToString(Len(table.history)), 1)
          IN  table' = [table EXCEPT
                           !.counts[i] = @ + 1,
                           !.history = Append(@, [operation |-> "WRITE",
                                                  version |-> Len(@)]),
                           !.tracked = Append(@, added),
                           !.present = Append(@, added)]
    /\ UNCHANGED <<pc, request, analyzer, metrics, ret, calls, error, result,
                   populated>>

\* lines 224-256: the file inventory block
PyInventory ==
    /\ pc = "py_inventory"
    /\ metrics' =
          IF "file_uris" \in table.faults
          THEN inventory_defaults(metrics)
          ELSE inventory_metrics(
                   metrics,
                   check_delta_file_usage(analyzer.data, table.present,
                                          analyzer.all_folder_file_paths),
                   request)
    /\ pc' = "py_finalize"
    /\ populated' = populated \o (<<"file_inventory">>)
    /\ UNCHANGED <<request, table, analyzer, ret, calls, error, result>>

\* lines 258-280: the second check_delta_file_usage call, outside any try, and
\* the derived fields; analyze_table returns to the facade, or to the caller
\* who called it on the backend object
PyFinalize ==
    /\ pc = "py_finalize"
    /\ IF "file_uris" \in table.faults
       THEN pc' = "raised" /\ metrics' = None /\ error' = "Exception"
       ELSE /\ pc' = IF request.entry = "analyze_table" THEN "returned" ELSE "score"
            /\ UNCHANGED error
            /\ metrics' =
                  finalize_metrics(
                      metrics,
                      check_delta_file_usage(analyzer.data, table.present,
                                             analyzer.all_folder_file_paths),
                      analyzer.data.table_uri, analyzer.partition_cols)
    /\ populated' = populated \o (IF "file_uris" \in table.faults THEN <<>>
                                 ELSE <<"file_inventory", "derived_ratios">>)
    /\ UNCHANGED <<request, table, analyzer, ret, calls, result>>

\* the tables DeltaTable.forPath / forName may open for a request whose
\* queries address `tbl`: `tbl` itself when one identifier is given, any table
\* stored at the given path when a catalog name is given as well
held_tables(req, tbl, tbls) ==
    IF req.table_path # NoneStr /\ req.table_name # NoneStr
    THEN {[t EXCEPT !.location = req.table_path] : t \in tbls}
    ELSE {tbl}

\* DeltaSparkAnalyzer.load_data and the handle check (lines 106-109)
\* `tbl` is the table the queries address (full_table_name: the catalog name
\* when one is given, else the path); the handle is opened by path when a path
\* is given, which with both identifiers may be another table
SparkLoad(tbls) ==
    /\ pc = "spark_load"
    /\ \E tbl \in tbls :
        \E held \in held_tables(request, tbl, tbls) :
            /\ table' = tbl
            /\ IF request.table_path = NoneStr /\ request.table_name = NoneStr
               THEN pc' = "raised" /\ error' = "ValueError" /\ UNCHANGED analyzer
               ELSE IF "open" \in held.faults
               THEN /\ pc' = "raised" /\ error' = "AnalysisException"
                    /\ UNCHANGED analyzer
               ELSE /\ pc' = "spark_detail"
                    /\ UNCHANGED error
                    /\ analyzer' = [analyzer EXCEPT !.data = held]
    /\ UNCHANGED <<request, metrics, ret, calls, result, populated>>

\* lines 111-138: table details, history counters, folder size
SparkDetail ==
    /\ pc = "spark_detail"
    /\ metrics' = spark_detail_metrics(describe_detail(table), table.history)
    /\ pc' = "spark_skew"
    /\ populated' = populated \o (<<"file_inventory", "history", "folder_size">>)
    /\ UNCHANGED <<request, table, analyzer, ret, calls, error, result>>

\* lines 140-154: the skew block, run only for a partitioned table
SparkSkew ==
    /\ pc = "spark_skew"
    /\ LET partition_cols == describe_detail(table).partitionColumns
       IN  metrics' =
              IF partition_cols = <<>> THEN metrics
              ELSE IF "skew_max" \in table.faults
              THEN spark_skew_failed(metrics, partition_cols)
              ELSE spark_analyze_skewness(GroupByCount(table), partition_cols,
                                          request.skew_threshold, metrics)
    /\ pc' = "spark_count"
    /\ populated' = populated \o (IF table.partition_columns = <<>> THEN <<>> ELSE <<"skew">>)
    /\ UNCHANGED <<request, table, analyzer, ret, calls, error, result>>

\* lines 156-159: the record count, read through the handle
SparkCount ==
    /\ pc = "spark_count"
    /\ metrics' = [metrics EXCEPT
                      !.record_count =
                          IF "record_count" \in analyzer.data.faults THEN 0
                          ELSE SeqSum(analyzer.data.counts)]
    /\ pc' = "spark_heuristics"
    /\ populated' = populated \o (<<"record_count">>)
    /\ UNCHANGED <<request, table, analyzer, ret, calls, error, result>>

\* lines 161-191: heuristics; analyze_table returns to the facade
SparkHeuristics ==
    /\ pc = "spark_heuristics"
    /\ metrics' = spark_heuristics(metrics, request, describe_detail(table).location)
    /\ pc' = "score"
    /\ populated' = populated \o (<<"file_inventory", "derived_ratios">>)
    /\ UNCHANGED <<request, table, analyzer, ret, calls, error, result>>

\* DeltaAnalyzer.analyze, lines 92-93: score the record and return it
Score ==
    /\ pc = "score"
    /\ metrics' = calculate_health_score(metrics)
    /\ ret' = health_pair(metrics)
    /\ calls' = calls + 1
    /\ pc' = IF request.entry = "analyze_with_health_result"
             THEN "create_health_result" ELSE "returned"
    /\ UNCHANGED <<request, table, analyzer, error, result, populated>>

\* DeltaAnalyzer.analyze_with_health_result, line 118: the record analyze
\* returned is wrapped by create_health_result
CreateHealthResult ==
    /\ pc = "create_health_result"
    /\ result' = create_health_result(metrics)
    /\ metrics' = create_health_result(metrics).metrics
    /\ ret' = health_pair(metrics)
    /\ calls' = calls + 1
    /\ pc' = "returned"
    /\ UNCHANGED <<request, table, analyzer, error, populated>>

\* a later scoring call on a record the caller holds: print_results (line 108)
\* or calculate_health_score itself
CalculateHealthScore ==
    /\ pc \in {"returned", "record"}
    /\ calls < MaxCalls
    /\ metrics' = calculate_health_score(metrics)
    /\ ret' = health_pair(metrics)
    /\ calls' = calls + 1
    /\ UNCHANGED <<pc, request, table, analyzer, error, result, populated>>

Next ==
    \/ Analyze(Requests)
    \/ PyLoad(Tables)
    \/ PyHistory
    \/ PySkew
    \/ PyFolder
    \/ PyCount
    \/ PyInventory
    \/ PyFinalize
    \/ SparkLoad(Tables)
    \/ SparkDetail
    \/ SparkSkew
    \/ SparkCount
    \/ SparkHeuristics
    \/ Score
    \/ CalculateHealthScore

Spec == Init /\ [][Next]_vars

\* the same machine over tables chosen to exercise the skew calculators
NextSkew ==
    \/ Analyze(SkewRequests)
    \/ PyLoad(SkewTables)
    \/ PyHistory
    \/ PySkew
    \/ PyFolder
    \/ PyCount
    \/ PyInventory
    \/ PyFinalize
    \/ SparkLoad(SkewTables)
    \/ SparkDetail
    \/ SparkSkew
    \/ SparkCount
    \/ SparkHeuristics
    \/ Score
    \/ CalculateHealthScore

SpecSkew == Init /\ [][NextSkew]_vars

\* the local backend over tables and thresholds chosen to exercise the file
\* inventory
NextInventory ==
    \/ Analyze(InventoryRequests)
    \/ PyLoad(InventoryTables)
    \/ PyHistory
    \/ PySkew
    \/ PyFolder
    \/ PyCount
    \/ PyInventory
    \/ PyFinalize
    \/ Score

SpecInventory == Init /\ [][NextInventory]_vars

\* both entry points of the facade, and a distributed request carrying two
\* identifiers
NextFacade ==
    \/ Analyze(FacadeRequests)
    \/ PyLoad(FacadeTables)
    \/ PyHistory
    \/ PySkew
    \/ PyFolder
    \/ PyCount
    \/ PyInventory
    \/ PyFinalize
    \/ SparkLoad(FacadeTables)
    \/ SparkDetail
    \/ SparkSkew
    \/ SparkCount
    \/ SparkHeuristics
    \/ Score
    \/ CreateHealthResult

SpecFacade == Init /\ [][NextFacade]_vars

\* a caller analysing one table after another with DeltaPythonAnalyzer objects
NextReuse ==
    \/ AnalyzeTable(ReuseRequests)
    \/ PyLoad(ReuseTables)
    \/ PyHistory
    \/ PySkew
    \/ PyFolder
    \/ PyCount
    \/ PyInventory
    \/ PyFinalize

SpecReuse == Init /\ [][NextReuse]_vars

\* the distributed backend over tables chosen to exercise its heuristics
NextHeuristics ==
    \/ Analyze(HeuristicRequests)
    \/ SparkLoad(HeuristicTables)
    \/ SparkDetail
    \/ SparkSkew
    \/ SparkCount
    \/ SparkHeuristics
    \/ Score

SpecHeuristics == Init /\ [][NextHeuristics]_vars

\* partitioned tables of two or three partitions, no fault
ConcurrentTables ==
    MakeTables({<<"day">>}, {<<1, 3>>, <<3, 3>>, <<1, 2, 4>>}, {Hist(1, 0, 0), Hist(4, 1, 0)},
               {[tracked |-> <<File("d1", "a", 1), File("d2", "b", 20)>>,
                 present |-> <<File("d1", "a", 1), File("d2", "b", 20)>>]},
               {{}})

\* the local backend while another writer commits to the table
NextConcurrent ==
    \/ Analyze({Request("python", FALSE, NoneStr, "/data/t", RDiv(R(1), R(10)))})
    \/ PyLoad(ConcurrentTables)
    \/ PyHistory
    \/ PySkew
    \/ PyFolder
    \/ PyCount
    \/ WriterCommits
    \/ PyInventory
    \/ PyFinalize
    \/ Score

SpecConcurrent == Init /\ [][NextConcurrent]_vars

\* the scoring function alone, on any record a caller may hold
InitScore ==
    /\ pc = "record"
    /\ request = None
    /\ table = None
    /\ analyzer = None
    /\ metrics \in ScoreRecords
    /\ ret = None
    /\ calls = 0
    /\ error = NoneStr
    /\ result = None
    /\ populated = <<>>

NextScore == CalculateHealthScore

\* DeltaAnalyzer.create_health_result called by a caller on a record they hold
CreateHealthResultOfRecord ==
    /\ pc = "record"
    /\ result' = create_health_result(metrics)
    /\ metrics' = create_health_result(metrics).metrics
    /\ ret' = health_pair(metrics)
    /\ calls' = calls + 1
    /\ pc' = "returned"
    /\ UNCHANGED <<request, table, analyzer, error, populated>>

NextResult == CreateHealthResultOfRecord

\* the wrapper alone, on any record a caller may hold
SpecResult == InitScore /\ [][NextResult]_vars

SpecScore == InitScore /\ [][NextScore]_vars

----------------------------------------------------------------------------
(* Properties of the health score.                                          *)

\* C1: when DeltaAnalyzer.analyze returns normally, with either backend, the
\* returned record has a score and a status, the status being HEALTHY,
\* UNHEALTHY or VERY_UNHEALTHY; and in every state of a metrics record the
\* score is None exactly when the status is None.
C1_ReturnedMetricsAreScored ==
    /\ pc = "returned" =>
          /\ metrics # None
          /\ metrics.health_score # None
          /\ metrics.health_status \in {HEALTHY, UNHEALTHY, VERY_UNHEALTHY}
    /\ metrics # None =>
          (metrics.health_score = None <=> metrics.health_status = NoneStr)

\* a degraded local analysis that still returned a scored record
C1_Witness ==
    /\ pc = "returned"
    /\ request.environment = "python"
    /\ table.faults = {"skew_average"}
    /\ metrics.health_status = UNHEALTHY

\* the score as the specification words it, for a given skewness
claimed_freshness(m) ==
    RMul(RMin(RDiv(R(m.number_of_writes), R(10)), R(1)), R(25))

claimed_maintenance(m) ==
    RAdd(RMul(RMin(RMul(RDiv(R(m.number_of_optimizes),
                             R(Max2(m.number_of_writes, 1))), R(10)), R(1)),
              RDiv(R(25), R(2))),
         IF m.needs_vacuum THEN R(0) ELSE RDiv(R(25), R(2)))

claimed_balance(skewness) == RSub(R(25), RMin(RMul(skewness, R(100)), R(25)))

claimed_storage(m) ==
    RSub(RSub(R(25),
              RMin(RMul(RDiv(R(m.small_files_count),
                             R(Max2(m.number_of_writes * 2, 1))),
                        RDiv(R(25), R(2))),
                   RDiv(R(25), R(2)))),
         IF m.has_orphan_files THEN RDiv(R(25), R(2)) ELSE R(0))

claimed_overall(m, skewness) ==
    RAdd(RAdd(RAdd(claimed_freshness(m), claimed_maintenance(m)),
              claimed_balance(skewness)),
         claimed_storage(m))

\* the skewness of the bundle when the bundle is non-empty and holds one, else
\* the scalar field
effective_skewness(m) ==
    IF m.skew_metrics.keys # {} /\ "skewness_max" \in m.skew_metrics.keys
    THEN m.skew_metrics.skewness_max
    ELSE m.skewness_max

C4_StatusThresholds ==
    calls >= 1 =>
        /\ metrics.health_status = HEALTHY <=> RLe(R(80), metrics.health_score)
        /\ metrics.health_status = UNHEALTHY <=>
              (RLe(R(50), metrics.health_score) /\ RLt(metrics.health_score, R(80)))
        /\ metrics.health_status = VERY_UNHEALTHY <=> RLt(metrics.health_score, R(50))
        /\ metrics.health_status # UNKNOWN

\* a score exactly on the HEALTHY boundary
C4_Witness ==
    /\ calls >= 1
    /\ metrics.health_score = R(80)
    /\ metrics.health_status = HEALTHY

\* C5: a second or later scoring call on an unchanged record returns the pair
\* the call before it returned and leaves the stored score and status as they
\* were.
C5_ScoringIdempotent ==
    [][(calls >= 1 /\ calls' = calls + 1) =>
          /\ ret' = ret
          /\ metrics'.health_score = metrics.health_score
          /\ metrics'.health_status = metrics.health_status
          /\ ret' = <<metrics'.health_score, metrics'.health_status>>]_vars

\* a record scored at least twice
C5_Witness ==
    /\ calls >= 2
    /\ ret = <<metrics.health_score, metrics.health_status>>
    /\ metrics.health_status = VERY_UNHEALTHY

----------------------------------------------------------------------------
(* Properties of the skew metrics.                                          *)

AllEqual(c) == \A i, j \in 1..Len(c) : c[i] = c[j]

\* C6: for every partition-to-count mapping the reported skewness_max is
\* (max_count - min_count) / max_count, and 0 when there is at most one
\* partition or max_count is 0; equal counts give skewness_max 0 and
\* skewness_average 0.
C6_SkewnessMaxFormula ==
    (pc = "returned" /\ table.partition_columns # <<>>) =>
        LET c == table.counts
            k == metrics.skewness_max
        IN  /\ (Len(c) <= 1 \/ SeqMax(c) = 0) => k = R(0)
            /\ (Len(c) > 1 /\ SeqMax(c) > 0) =>
                  /\ k[1] * SeqMax(c) = (SeqMax(c) - SeqMin(c)) * k[2]
                  /\ k[2] > 0
            /\ AllEqual(c) => k = R(0) /\ metrics.skewness_average = R(0)

\* a local analysis of partitions holding 12, 1 and 1 records
C6_Witness ==
    /\ pc = "returned"
    /\ request.environment = "python"
    /\ table.counts = <<1, 12, 1>>
    /\ metrics.skewness_max = RDiv(R(11), R(12))

\* C7: for every partition-to-count mapping both backends report skewness_max
\* and skewness_average within the closed interval [0, 1].
C7_SkewnessWithinUnitInterval ==
    (pc = "returned" /\ table.partition_columns # <<>>) =>
        /\ RLe(R(0), metrics.skewness_max) /\ RLe(metrics.skewness_max, R(1))
        /\ RLe(R(0), metrics.skewness_average) /\ RLe(metrics.skewness_average, R(1))

\* the skew block ran to its end and left a bundle without an error note
SkewSucceeded ==
    /\ "is_skewed" \in metrics.skew_metrics.keys
    /\ "error" \notin metrics.skew_metrics.keys

\* C8: after a successful skew computation is_skewed, the scalar field and the
\* bundle's entry, is true exactly when skewness_max > skew_threshold, in both
\* backends.
C8_IsSkewedIffMaxAboveThreshold ==
    (pc = "returned" /\ SkewSucceeded) =>
        /\ metrics.is_skewed <=> RLt(request.skew_threshold, metrics.skewness_max)
        /\ metrics.skew_metrics.is_skewed <=>
              RLt(request.skew_threshold, metrics.skewness_max)

\* C9: in the metrics returned for a partitioned table the scalar fields agree
\* with the bundle (skewness_max, skewness_average, is_skewed, and
\* partition_skewness against the bundle's skewness_max), and the bundle holds
\* partition_columns in declared order and records_per_partition_dict.
C9_ScalarsAgreeWithBundle ==
    (pc = "returned" /\ table.partition_columns # <<>>) =>
        LET b == metrics.skew_metrics
        IN  /\ {"partition_columns", "skewness_max", "skewness_average",
                "is_skewed", "records_per_partition_dict"} \subseteq b.keys
            /\ metrics.skewness_max = b.skewness_max
            /\ metrics.skewness_average = b.skewness_average
            /\ metrics.is_skewed = b.is_skewed
            /\ metrics.partition_skewness = b.skewness_max
            /\ b.partition_columns = table.partition_columns

\* C10: in the local backend, once the handle is open, a failing metric group
\* (skew, folder walk, record count, file inventory or tracked-file list)
\* never aborts the analysis: a record is returned, the failing group holds its
\* defaults and the history counters computed before keep their values.
C10_MetricGroupFailureNeverAborts ==
    (/\ request # None
     /\ request.environment = "python"
     /\ table # None
     /\ "open" \notin table.faults)
    => /\ pc # "raised"
       /\ pc \in {"score", "returned"} =>
             /\ metrics.number_of_writes = count_ops(table.history, "WRITE")
             /\ metrics.number_of_deletes = count_ops(table.history, "DELETE")
             /\ metrics.number_of_optimizes = count_ops(table.history, "OPTIMIZE")
             /\ metrics.version_count = max_version(table.history)
             /\ (table.faults \cap {"skew_max", "skew_average"} # {}) =>
                   /\ metrics.skewness_max = R(0)
                   /\ metrics.skewness_average = R(0)
                   /\ ~metrics.is_skewed
             /\ "folder_walk" \in table.faults => metrics.folder_size_bytes = 0
             /\ "record_count" \in table.faults => metrics.record_count = 0
             /\ "file_uris" \in table.faults =>
                   /\ metrics.table_size_bytes = 0
                   /\ ~metrics.needs_vacuum
                   /\ ~metrics.has_orphan_files
                   /\ ~metrics.needs_optimize
                   /\ metrics.small_files_count = 0
                   /\ metrics.avg_file_size_bytes = 0

----------------------------------------------------------------------------
(* Properties of the history counters and of the file inventory.           *)

\* the number of entries of `history` tagged `tag`, entry by entry
RECURSIVE entries_tagged(_, _)
entries_tagged(history, tag) ==
    IF history = <<>> THEN 0
    ELSE (IF Head(history).operation = tag THEN 1 ELSE 0)
         + entries_tagged(Tail(history), tag)

\* the history counters have been computed and the call has not failed
CountersComputed ==
    /\ metrics # None
    /\ pc \notin {"idle", "raised", "py_load", "py_history", "spark_load", "spark_detail"}

\* C11: for every operation history number_of_writes, number_of_deletes and
\* number_of_optimizes are the numbers of entries tagged WRITE, DELETE and
\* OPTIMIZE (MERGE and other tags change none of them), and version_count is
\* the largest version in the history, 0 for an empty history.
C11_HistoryCounters ==
    CountersComputed =>
        LET h == table.history
        IN  /\ metrics.number_of_writes = entries_tagged(h, "WRITE")
            /\ metrics.number_of_deletes = entries_tagged(h, "DELETE")
            /\ metrics.number_of_optimizes = entries_tagged(h, "OPTIMIZE")
            /\ h = <<>> => metrics.version_count = 0
            /\ h # <<>> =>
                  /\ \A i \in 1..Len(h) : h[i].version <= metrics.version_count
                  /\ \E i \in 1..Len(h) : h[i].version = metrics.version_count

\* a returned local analysis of the history with merges and a RESTORE commit
C11_Witness ==
    /\ pc = "returned"
    /\ request.environment = "python"
    /\ table.history = MixedHistory
    /\ metrics.number_of_writes = 2
    /\ metrics.number_of_deletes = 1
    /\ metrics.number_of_optimizes = 0
    /\ metrics.version_count = 5

\* the data files the folder walk listed: every present file, or none when
\* the walk failed
present_files == IF "folder_walk" \in table.faults THEN <<>> ELSE table.present

readable_sizes ==
    not_none([i \in 1..Len(table.tracked) |->
                 getsize(table.present, table.tracked[i].path)])

\* the size below which a file is small: small_file_size_mb in bytes, or the
\* average size of the tracked files when no threshold is supplied
claimed_small_threshold ==
    IF request.small_file_size_mb = None
    THEN RDiv(R(SeqSum(readable_sizes)), R(Len(readable_sizes)))
    ELSE RMul(request.small_file_size_mb, R(MiB))

\* C14: in the local backend needs_optimize is true exactly when
\* small_files_count > total_tracked_files * small_file_ratio_threshold, the
\* total being the number of files the table tracks (reported as
\* data_file_count), also when tracked files are missing from storage; a file
\* is small when its size is below small_file_size_mb in bytes, or below the
\* average tracked file size when no threshold is supplied.
C14_NeedsOptimizeOverTrackedFiles ==
    (pc = "returned" /\ request.environment = "python") =>
        /\ metrics.data_file_count = Len(table.tracked)
        /\ readable_sizes # <<>> =>
              metrics.small_files_count =
                  Cardinality({i \in 1..Len(readable_sizes) :
                                  RLt(R(readable_sizes[i]), claimed_small_threshold)})
        /\ metrics.needs_optimize <=>
              RLt(RMul(R(metrics.data_file_count), request.small_file_ratio_threshold),
                  R(metrics.small_files_count))

----------------------------------------------------------------------------
(* Properties of the facade.                                                *)

\* an unrecognized backend tag, a databricks request without a session, or a
\* python request without table_path
InvalidConfiguration(req) ==
    \/ req.environment \notin {"python", "databricks"}
    \/ req.environment = "databricks" /\ ~req.spark
    \/ req.environment = "python" /\ req.table_path = NoneStr

\* C15: a request with an invalid configuration raises ValueError before any
\* table is opened or any backend query is issued, and never yields a metrics
\* record, partial or complete.
C15_InvalidConfigurationRaises ==
    (request # None /\ InvalidConfiguration(request)) =>
        /\ pc = "raised"
        /\ error = "ValueError"
        /\ table = None
        /\ analyzer = None
        /\ metrics = None
        /\ result = None
        /\ calls = 0

\* a databricks request without a session, rejected
C15_Witness ==
    /\ request # None
    /\ request.environment = "databricks"
    /\ ~request.spark
    /\ pc = "raised"
    /\ error = "ValueError"

\* the distributed backend accepted the request and holds a handle
SparkAccepted ==
    /\ request # None
    /\ request.environment = "databricks"
    /\ analyzer # None
    /\ analyzer.data # None

\* C16: the distributed backend loads a table by exactly one of catalog name
\* or storage path: a request with neither and a request with both is rejected
\* with a configuration error, and for an accepted request the handle that is
\* opened and the table the detail, history and skew queries address are the
\* same table.
C16_ExactlyOneIdentifier ==
    /\ (/\ request # None
        /\ request.environment = "databricks"
        /\ request.spark
        /\ (request.table_name = NoneStr) = (request.table_path = NoneStr)
        /\ pc # "spark_load")
       => pc = "raised" /\ error = "ValueError"
    /\ SparkAccepted => analyzer.data = table

\* the nearest integer to a non-negative number, halves upward
claimed_rounded(a) == (2 * a[1] + a[2]) \div (2 * a[2])

\* analyze_with_health_result has returned its HealthResult
ResultReturned == pc = "returned" /\ result # None

\* C17 as stated: the HealthResult carries health_metric equal to the metrics'
\* health_score rounded to the nearest integer, the metrics' health_status and
\* the metrics record itself.
C17_HealthMetricRounded ==
    ResultReturned =>
        /\ result.health_metric = claimed_rounded(metrics.health_score)
        /\ result.health_status = metrics.health_status
        /\ result.metrics = metrics

\* C17 amended: the HealthResult carries health_metric equal to the integer
\* part of the metrics' health_score (the fraction is dropped, not rounded),
\* the metrics' health_status and the metrics record itself.
C17_HealthMetricTruncated ==
    ResultReturned =>
        /\ R(result.health_metric) \in
              {k \in {R(i) : i \in 0..100} :
                  /\ RLe(k, metrics.health_score)
                  /\ RLt(metrics.health_score, RAdd(k, R(1)))}
        /\ result.health_status = metrics.health_status
        /\ result.metrics = metrics

\* a score of 70.9375 wrapped as 70
C17_Witness ==
    /\ ResultReturned
    /\ metrics.health_score = RDiv(R(1135), R(16))
    /\ result.health_metric = 70
    /\ result.health_status = UNHEALTHY

\* C18: during one completed analysis the scoring function assigns
\* health_score and health_status exactly once, for DeltaAnalyzer.analyze and
\* for DeltaAnalyzer.analyze_with_health_result.
C18_ScoredExactlyOnce ==
    (pc = "returned"
     /\ request.entry \in {"analyze", "analyze_with_health_result"})
    => calls = 1

----------------------------------------------------------------------------
(* Properties of repeated and of degraded analyses.                         *)

\* C19: for any sequence of analyses, including several analyze_table calls on
\* one DeltaPythonAnalyzer object, each call starts from a fresh metrics record
\* and its result depends only on the table analysed in that call: the skew
\* bundle describes that table's partitions and the file counts come from
\* that table's folder walk, never from an earlier table.
C19_NoStateCarriedOver ==
    (pc = "returned" /\ request.environment = "python") =>
        LET b == metrics.skew_metrics
        IN  /\ "records_per_partition_dict" \in b.keys =>
                  /\ Len(table.counts) > 1
                  /\ b.partition_columns = table.partition_columns
                  /\ b.records_per_partition_dict =
                        records_per_partition(GroupByCount(table),
                                              table.partition_columns)
            /\ "skewness_max" \in b.keys =>
                  \/ b.skewness_max = R(0)
                  \/ table.counts # <<>> /\ b.skewness_max = max_skew(table.counts)
            /\ metrics.total_file_count = Len(present_files)
            /\ metrics.health_score = None <=> request.entry = "analyze_table"

\* the table was opened and the skew computation of the running analysis
\* fails: in the local backend its first or its second call, in the
\* distributed backend its query
SkewFailed ==
    /\ request # None
    /\ table # None
    /\ analyzer # None
    /\ analyzer.data # None
    /\ \/ /\ request.environment = "python"
          /\ table.faults \cap {"skew_max", "skew_average"} # {}
       \/ /\ request.environment = "databricks"
          /\ "skew_max" \in table.faults
          /\ table.partition_columns # <<>>

\* C20: when the skew computation fails in either backend the returned metrics
\* have skewness_max 0, skewness_average 0 and is_skewed false, skew_metrics
\* holds an 'error' annotation beside the same zero and false values, the
\* history counters and version_count are unchanged, and the remaining steps
\* still run.
C20_SkewFailureDefaults ==
    SkewFailed =>
        /\ pc # "raised"
        /\ pc \in {"py_folder", "py_count", "py_inventory", "py_finalize",
                   "spark_count", "spark_heuristics", "score", "returned"} =>
              /\ metrics.skewness_max = R(0)
              /\ metrics.skewness_average = R(0)
              /\ ~metrics.is_skewed
              /\ {"error", "skewness_max", "skewness_average", "is_skewed"}
                    \subseteq metrics.skew_metrics.keys
              /\ metrics.skew_metrics.error # ""
              /\ metrics.skew_metrics.skewness_max = R(0)
              /\ metrics.skew_metrics.skewness_average = R(0)
              /\ ~metrics.skew_metrics.is_skewed
              /\ metrics.number_of_writes = entries_tagged(table.history, "WRITE")
              /\ metrics.number_of_deletes = entries_tagged(table.history, "DELETE")
              /\ metrics.number_of_optimizes =
                    entries_tagged(table.history, "OPTIMIZE")
              /\ metrics.version_count = max_version(table.history)
        /\ pc = "returned" =>
              /\ metrics.record_count = SeqSum(table.counts)
              /\ metrics.table_path = table.location
              /\ metrics.data_file_count = Len(table.tracked)
              /\ metrics.health_score # None

\* a local analysis whose second skew call failed, returned with the record
\* count of the table
C20_Witness ==
    /\ pc = "returned"
    /\ request.environment = "python"
    /\ table.faults = {"skew_average"}
    /\ table.counts = <<1, 3>>
    /\ table.partition_columns = <<"day">>
    /\ "error" \in metrics.skew_metrics.keys
    /\ metrics.record_count = 4

----------------------------------------------------------------------------
(* Properties of the backends' procedures and heuristics.                   *)

\* C21: the local backend runs the skew calculator only for a table that
\* declares partition columns: for a table without partition columns the
\* returned metrics carry skewness 0 and is_skewed false, and skew_metrics
\* holds no 'error' annotation.
C21_NoSkewRunWithoutPartitions ==
    (/\ pc = "returned"
     /\ request.environment = "python"
     /\ table.partition_columns = <<>>
     /\ table.faults = {})
    => /\ metrics.skewness_max = R(0)
       /\ metrics.skewness_average = R(0)
       /\ ~metrics.is_skewed
       /\ "error" \notin metrics.skew_metrics.keys

\* the place of a metric group in the order the specification gives
claimed_rank(group) ==
    CASE group = "history" -> 1
      [] group = "skew" -> 2
      [] group = "folder_size" -> 3
      [] group = "record_count" -> 4
      [] group = "file_inventory" -> 5
      [] group = "derived_ratios" -> 6

\* C22: in every analysis run of either backend the metric groups are
\* populated in the order history counters, skew, folder size, record count,
\* file inventory, derived ratios; in particular the folder walk precedes the
\* file inventory.
C22_FixedPopulationOrder ==
    \A i, j \in 1..Len(populated) :
        i < j => claimed_rank(populated[i]) <= claimed_rank(populated[j])

\* the distributed analyze_table has returned its record to the facade
SparkAnalysed ==
    /\ request # None
    /\ request.environment = "databricks"
    /\ pc \in {"score", "create_health_result", "returned"}

\* C23: in the distributed backend needs_vacuum is true exactly when
\* number_of_writes > 10 * number_of_optimizes and number_of_writes > 0;
\* files_needing_vacuum is floor(0.1 * data_file_count) when needs_vacuum is
\* true and 0 otherwise; has_orphan_files equals needs_vacuum and
\* orphan_files_count equals files_needing_vacuum.
C23_SparkVacuumHeuristic ==
    SparkAnalysed =>
        LET n == metrics.data_file_count
            k == metrics.files_needing_vacuum
        IN  /\ n = Len(table.tracked)
            /\ metrics.needs_vacuum <=>
                  /\ metrics.number_of_writes > 10 * metrics.number_of_optimizes
                  /\ metrics.number_of_writes > 0
            /\ metrics.needs_vacuum => 10 * k <= n /\ n < 10 * (k + 1)
            /\ ~metrics.needs_vacuum => k = 0
            /\ metrics.has_orphan_files = metrics.needs_vacuum
            /\ metrics.orphan_files_count = k

\* 25 files after 11 writes and one optimize: two files to vacuum
C23_Witness ==
    /\ SparkAnalysed
    /\ pc = "returned"
    /\ metrics.number_of_writes = 11
    /\ metrics.number_of_optimizes = 1
    /\ metrics.data_file_count = MaxFiles
    /\ metrics.needs_vacuum
    /\ metrics.files_needing_vacuum = MaxFiles \div 10
    /\ metrics.orphan_files_count = MaxFiles \div 10

\* k = floor(n * num / 10)
is_floor_of_tenths(k, num, n) == 10 * k <= num * n /\ num * n < 10 * (k + 1)

\* C24: in the distributed backend with data_file_count > 0 and
\* table_size_bytes > 0, small_files_count is floor(0.8 * data_file_count) when
\* the average file size is below small_file_size_mb, floor(0.3 *
\* data_file_count) when it is at least that and below twice that, and
\* floor(0.1 * data_file_count) otherwise; with zero files or zero size,
\* small_files_count is 0 and needs_optimize is false.
C24_SparkSmallFileBands ==
    SparkAnalysed =>
        LET n == metrics.data_file_count
            size == R(metrics.table_size_bytes)
            \* n times the threshold in bytes: size / n < t  <=>  size < n * t
            scaled == RMul(R(n), RMul(request.small_file_size_mb, R(MiB)))
            k == metrics.small_files_count
        IN  IF n > 0 /\ metrics.table_size_bytes > 0
            THEN IF RLt(size, scaled) THEN is_floor_of_tenths(k, 8, n)
                 ELSE IF RLt(size, RMul(R(2), scaled)) THEN is_floor_of_tenths(k, 3, n)
                 ELSE is_floor_of_tenths(k, 1, n)
            ELSE k = 0 /\ ~metrics.needs_optimize

\* MaxFiles files of 15 MiB each, between the threshold and its double
C24_Witness ==
    /\ SparkAnalysed
    /\ pc = "returned"
    /\ metrics.data_file_count = MaxFiles
    /\ metrics.table_size_bytes = MaxFiles * 15 * MiB
    /\ metrics.small_files_count = (3 * MaxFiles) \div 10
    /\ metrics.small_files_count > 0

\* an analysis has returned its metrics record to the facade
Analysed ==
    /\ request # None
    /\ metrics # None
    /\ pc \in {"score", "create_health_result", "returned"}

\* file_size_efficiency, when set, is min(1, avg_file_size_bytes / 128 MiB)
FileSizeEfficiencyAsStated ==
    metrics.file_size_efficiency # None =>
        metrics.file_size_efficiency =
            RMin(R(1), RDiv(R(metrics.avg_file_size_bytes), R(128 * MiB)))

\* storage_efficiency is the size ratio, unset for an empty folder
StorageEfficiencyMeasured ==
    IF metrics.folder_size_bytes > 0
    THEN metrics.storage_efficiency =
             RDiv(R(metrics.table_size_bytes), R(metrics.folder_size_bytes))
    ELSE metrics.storage_efficiency = None

\* C25 as stated: in the metrics returned by either backend,
\* storage_efficiency equals table_size_bytes / folder_size_bytes whenever
\* folder_size_bytes > 0 and is left unset when folder_size_bytes is 0, and
\* file_size_efficiency, when set, equals min(1, avg_file_size_bytes / 128 MiB).
C25_EfficienciesInEitherBackend ==
    Analysed => StorageEfficiencyMeasured /\ FileSizeEfficiencyAsStated

\* C25, amended: the local backend measures storage_efficiency as stated; the
\* distributed backend reports the constant 0.95 whatever the sizes;
\* file_size_efficiency, when set, is min(1, avg_file_size_bytes / 128 MiB) in
\* both.
C25_EfficienciesPerBackend ==
    Analysed =>
        /\ FileSizeEfficiencyAsStated
        /\ IF request.environment = "python"
           THEN StorageEfficiencyMeasured
           ELSE metrics.storage_efficiency = RDiv(R(95), R(100))

\* a local analysis of a folder holding left-over files beside the table's
C25_Witness ==
    /\ Analysed
    /\ pc = "returned"
    /\ request.environment = "python"
    /\ metrics.folder_size_bytes > metrics.table_size_bytes
    /\ metrics.table_size_bytes > 0
    /\ metrics.storage_efficiency # None
    /\ RLt(metrics.storage_efficiency, R(1))
    /\ metrics.file_size_efficiency # None

\* the local backend analyses a table none of whose tracked files can be
\* sized (there is none, or none is in storage), and the table opens and
\* lists its files
NoReadableTrackedFile ==
    /\ request # None
    /\ request.environment = "python"
    /\ analyzer # None
    /\ analyzer.data # None
    /\ table.faults \cap {"open", "file_uris"} = {}
    /\ \A i \in 1..Len(table.tracked) :
          getsize(table.present, table.tracked[i].path) = None

\* C26: in the local backend, a table with zero tracked files (or none whose
\* size can be read) yields small_files_count = 0, needs_optimize = false and
\* avg_file_size_bytes = 0, no division error occurs anywhere in the analysis,
\* and a metrics record is still returned.  No division error: nothing is
\* raised, and the inventory block's except branch has not swallowed one
\* either, so needs_vacuum is the computed comparison of the size ratio (0
\* over a non-empty folder, 1.0 over an empty one) and not the failure default.
C26_NoTrackedFiles ==
    NoReadableTrackedFile =>
        /\ pc # "raised"
        /\ error = NoneStr
        /\ pc \in {"py_finalize", "score", "returned"} =>
              /\ metrics # None
              /\ metrics.small_files_count = 0
              /\ metrics.needs_optimize = FALSE
              /\ metrics.avg_file_size_bytes = 0
              /\ metrics.table_size_bytes = 0
              /\ metrics.needs_vacuum <=> metrics.folder_size_bytes > 0
        /\ pc \in {"score", "returned"} =>
              /\ metrics.file_size_efficiency = None
              /\ metrics.folder_size_bytes = 0 => metrics.storage_efficiency = None

\* two tracked files, both missing from a folder that holds another file
C26_Witness ==
    /\ NoReadableTrackedFile
    /\ pc = "returned"
    /\ Len(table.tracked) = 2
    /\ metrics.data_file_count = 2
    /\ metrics.folder_size_bytes > 0
    /\ metrics.avg_file_size_bytes = 0
    /\ metrics.small_files_count = 0
    /\ metrics.needs_vacuum

\* the sum of the values of a mapping over the keys in S
RECURSIVE SumOver(_, _)
SumOver(f, S) ==
    IF S = {} THEN 0
    ELSE LET k == CHOOSE x \in S : TRUE
         IN  f[k] + SumOver(f, S \ {k})

\* C27: in one local-backend analysis of a partitioned table with more than
\* one partition, the reported record_count equals the sum of the row counts
\* in skew_metrics['records_per_partition_dict'], including when another
\* writer commits to the table between the opening of the table handle and
\* the record-count step.
C27_RecordCountMatchesPartitions ==
    ( /\ request # None
      /\ request.environment = "python"
      /\ pc \in {"py_inventory", "py_finalize", "score", "returned"}
      /\ table.faults = {}
      /\ analyzer.data.partition_columns # <<>>
      /\ Len(analyzer.data.counts) > 1 )
    => /\ "records_per_partition_dict" \in metrics.skew_metrics.keys
       /\ LET d == metrics.skew_metrics.records_per_partition_dict
          IN  metrics.record_count = SumOver(d, DOMAIN d)

\* C28: in every HealthResult produced by create_health_result for a metrics
\* record with a non-negative score, the integer health_metric and the status
\* obey the same thresholds as the float score: health_status is HEALTHY iff
\* health_metric >= 80, UNHEALTHY iff 50 <= health_metric < 80, and
\* VERY_UNHEALTHY iff health_metric < 50.
C28_MetricAndStatusAgree ==
    (ResultReturned /\ RLe(R(0), metrics.health_score)) =>
        /\ result.health_status = HEALTHY <=> result.health_metric >= 80
        /\ result.health_status = UNHEALTHY <=>
              (50 <= result.health_metric /\ result.health_metric < 80)
        /\ result.health_status = VERY_UNHEALTHY <=> result.health_metric < 50

\* a score just below 80 wrapped as 79, unhealthy
C28_Witness ==
    /\ ResultReturned
    /\ RLt(R(79), metrics.health_score)
    /\ RLt(metrics.health_score, R(80))
    /\ result.health_metric = 79
    /\ result.health_status = UNHEALTHY

\* the record has been scored and is flagged for vacuum and for orphan files
ScoredWithVacuumAndOrphans ==
    /\ calls >= 1
    /\ metrics # None
    /\ metrics.needs_vacuum
    /\ metrics.has_orphan_files

\* at most 75, and not HEALTHY
NotScoredHealthy ==
    /\ RLe(metrics.health_score, R(75))
    /\ metrics.health_status # HEALTHY

\* in the distributed backend no table flagged needs_vacuum is reported HEALTHY
SparkVacuumNeverHealthy ==
    (/\ calls >= 1
     /\ metrics # None
     /\ request # None
     /\ request.environment = "databricks"
     /\ metrics.needs_vacuum)
    => metrics.health_status # HEALTHY

C30_OrphanFlagImpliesOrphanCount ==
    (/\ Analysed
     /\ request.environment = "python"
     /\ metrics.has_orphan_files)
    => metrics.orphan_files_count >= 1

====
